---- MODULE Spec2Model ----
(***************************************************************************)
(* Server core of Rain (gavento/rain): the graph owned by server::State,   *)
(* the mutation API of src/src/server/state.rs and the placement engine.   *)
(*                                                                         *)
(* Every method of State is an operator from a state record to a state     *)
(* record (fields: the entity heaps, the Graph maps, the update set, the   *)
(* RPCs spawned, the panic that killed the process, the Result returned).  *)
(* A handler of the reactor is one action: it applies the operators of the *)
(* whole call chain and commits the record to the variables.               *)
(*                                                                         *)
(* Entities are reference counted cells (WrappedRcRefCell): an entity can  *)
(* be alive outside the Graph maps while something still refers to it.     *)
(* The heaps `tasks`, `objects`, `sessions` hold the cells, graph.* hold   *)
(* the keys of the Graph maps.                                             *)
(*                                                                         *)
(* check_consistency_opt() is the debug-gated check; it is modelled with   *)
(* the gate off (a no-op), the ungated check_consistency() is modelled.    *)
(***************************************************************************)
EXTENDS Integers, Sequences, FiniteSets, TLC

\* ------------------------------------------------------------------ bounds
MaxSessions == 1
MaxObjects == 2
MaxTasks == 1

\* ------------------------------------------------------- program constants
OverbookLimit == 128

\* -------------------------------------------------------------- universes
None == "none"
NoTask == <<0, 0>>
NoSize == 0 - 1
ServerSource == "server"

WorkerIds == {"W1", "W2"}
ClientIds == {"C1"}
Cpus == {4}
Sizes == {11}
Payloads == {"hello"}

DataLen(d) == IF d = "hello" THEN 5 ELSE 0

ObjectLocals == 1..MaxObjects
TaskLocals == 1..MaxTasks

VARIABLES workers, tasks, objects, sessions, clients, graph, updates,
          rpcs, panic, known, last, conns

vars == <<workers, tasks, objects, sessions, clients, graph, updates,
          rpcs, panic, known, last, conns>>

\* ------------------------------------------------------------ map helpers
Put(f, k, v) == [x \in (DOMAIN f) \cup {k} |-> IF x = k THEN v ELSE f[x]]

Drop(f, K) == [x \in (DOMAIN f) \ K |-> f[x]]

EmptyMap == [x \in {} |-> None]

RECURSIVE SetToSeq(_)
SetToSeq(S) ==
    IF S = {} THEN <<>>
    ELSE LET x == CHOOSE y \in S : \A z \in S : y[2] <= z[2]
         IN <<x>> \o SetToSeq(S \ {x})

Range(q) == {q[i] : i \in 1..Len(q)}

\* ------------------------------------------------------------- update set
EmptyUpdates ==
    [new_tasks |-> {}, new_objects |-> {}, tasks |-> {}, objects |-> EmptyMap]

UpdatesIsEmpty(u) ==
    /\ u.new_tasks = {}
    /\ u.new_objects = {}
    /\ u.tasks = {}
    /\ DOMAIN u.objects = {}

\* ------------------------------------------------------------ the record
St ==
    [workers |-> workers, tasks |-> tasks, objects |-> objects,
     sessions |-> sessions, clients |-> clients, graph |-> graph,
     updates |-> updates, rpcs |-> {}, panic |-> None, ret |-> "ok", msg |-> None,
     view |-> EmptyMap, log |-> <<>>]

Panic(s, site) == [s EXCEPT !.panic = site]

\* bail!(msg): the Err a method returns, with its message.
Err(s, msg) == [s EXCEPT !.ret = "err", !.msg = msg]

Ok(s) == [s EXCEPT !.ret = "ok", !.msg = None]

Dead(s) == s.panic # None

Failed(s) == s.panic # None \/ s.ret = "err"

Send(s, rpc) == [s EXCEPT !.rpcs = @ \cup {rpc}]

\* The calls of one request, in the order they were made: `log` records the
\* entries into update_task_assignment and the firing of finish hooks.
Logged(s, call, id) == [s EXCEPT !.log = Append(@, [call |-> call, of |-> id])]

\* Sequencing: `x` is the state an earlier step left, F the rest of the method.
\* A panic ends the process; `?` returns an Err to the caller.
Bind(x, F(_)) == IF x.panic # None THEN x ELSE F(x)

Try(x, F(_)) == IF x.panic # None \/ x.ret = "err" THEN x ELSE F(x)

\* A HashSet is iterated in an order the program does not control: an order
\* is a rank of the ids, and the first element of a set is its minimum.
WorkerRank(w) == CASE w = "W1" -> 1 [] w = "W2" -> 2 [] OTHER -> 3

WorkerOrders == {"asc", "desc"}

TaskOrders == {"asc", "desc"}

IdKey(id) == id[1] * 1000 + id[2]

FirstWorker(S, ord) ==
    CHOOSE x \in S : \A y \in S :
        IF ord = "asc" THEN WorkerRank(x) <= WorkerRank(y)
        ELSE WorkerRank(x) >= WorkerRank(y)

FirstId(S, ord) ==
    CHOOSE x \in S : \A y \in S :
        IF ord = "asc" THEN IdKey(x) <= IdKey(y) ELSE IdKey(x) >= IdKey(y)

\* A `for` loop over a set of workers or of sessions; a panic in the body
\* ends it.
RECURSIVE FoldSet(_, _, _)
FoldSet(Op(_, _), s, S) ==
    IF S = {} \/ s.panic # None THEN s
    ELSE FoldSet(Op, Op(s, CHOOSE y \in S : TRUE), S \ {CHOOSE y \in S : TRUE})

\* A `for` loop over a set of task or object ids, in the order of their keys:
\* the first half of the keys, then the second half.
RECURSIVE FoldKeys(_, _, _, _, _)
FoldKeys(Op(_, _), s, S, lo, hi) ==
    IF S = {} \/ s.panic # None THEN s
    ELSE IF lo = hi THEN Op(s, CHOOSE x \in S : TRUE)
    ELSE FoldKeys(Op,
                  FoldKeys(Op, s, {x \in S : IdKey(x) <= (lo + hi) \div 2},
                           lo, (lo + hi) \div 2),
                  {x \in S : IdKey(x) > (lo + hi) \div 2},
                  (lo + hi) \div 2 + 1, hi)

FoldIds(Op(_, _), s, S) == FoldKeys(Op, s, S, 0, (MaxSessions + 2) * 1000)

\* A `for` loop over a list: the first half of it, then the second half.
RECURSIVE FoldSeq(_, _, _)
FoldSeq(Op(_, _), s, q) ==
    IF q = <<>> \/ s.panic # None THEN s
    ELSE IF Len(q) = 1 THEN Op(s, q[1])
    ELSE FoldSeq(Op, FoldSeq(Op, s, SubSeq(q, 1, Len(q) \div 2)),
                 SubSeq(q, Len(q) \div 2 + 1, Len(q)))

\* ------------------------------------------------- entities (server::graph)
\* WorkerRef::new
NewWorker(cpus) ==
    [cpus |-> cpus, error |-> None,
     assigned_tasks |-> {}, scheduled_ready_tasks |-> {},
     assigned_objects |-> {}, located_objects |-> {}, scheduled_objects |-> {}]

\* ClientRef::new
NewClient == [sessions |-> {}]

\* SessionRef::new(id, client): the session cell, linked into its client.
\* It is given no Graph, so it cannot register the session in graph.sessions.
SessionRef_new(s, id, client) ==
    [s EXCEPT
        !.sessions = Put(@, id, [client |-> client, tasks |-> {}, objects |-> {},
                                 error |-> None]),
        !.clients = [@ EXCEPT ![client].sessions = @ \cup {id}]]

\* DataObjectRef::new: the object cell, linked into its session. An object
\* created with inline data is Finished and its size is the data's length.
DataObjectRef_new(s, session, id, client_keep, data) ==
    [s EXCEPT
        !.objects = Put(@, id,
            [session |-> session, client_keep |-> client_keep,
             producer |-> NoTask, consumers |-> {},
             state |-> IF data = None THEN "Unfinished" ELSE "Finished",
             size |-> IF data = None THEN NoSize ELSE DataLen(data),
             data |-> data,
             located |-> {}, assigned |-> {}, scheduled |-> {}]),
        !.sessions = [@ EXCEPT ![session].objects = @ \cup {id}]]

\* A variant of TaskRef::new that does not make the task the producer of its
\* outputs.
TaskRef_new_unlinked(s, session, id, inputs, outputs) ==
    IF \/ s.sessions[session].error # None
       \/ \E o \in Range(outputs) : s.objects[o].producer # NoTask
    THEN Err(s, "TaskRef::new")
    ELSE Ok([s EXCEPT
        !.tasks = Put(@, id,
            [session |-> session, inputs |-> inputs, outputs |-> outputs,
             waiting_for |-> {o \in Range(inputs) : s.objects[o].state # "Finished"},
             scheduled |-> None, assigned |-> None, state |-> "NotAssigned"]),
        !.sessions = [@ EXCEPT ![session].tasks = @ \cup {id}],
        !.objects = [o \in DOMAIN @ |->
            [@[o] EXCEPT
                !.consumers = IF o \in Range(inputs) THEN @ \cup {id} ELSE @]]])

\* TaskRef::new: fails, with nothing linked, when the session has failed or an
\* output already has a producer; else the task cell, NotAssigned, waiting for
\* its inputs that are not Finished, linked into session, inputs and outputs.
TaskRef_new(s, session, id, inputs, outputs) ==
    IF \/ s.sessions[session].error # None
       \/ \E o \in Range(outputs) : s.objects[o].producer # NoTask
    THEN Err(s, "TaskRef::new")
    ELSE Ok([s EXCEPT
        !.tasks = Put(@, id,
            [session |-> session, inputs |-> inputs, outputs |-> outputs,
             waiting_for |-> {o \in Range(inputs) : s.objects[o].state # "Finished"},
             scheduled |-> None, assigned |-> None, state |-> "NotAssigned"]),
        !.sessions = [@ EXCEPT ![session].tasks = @ \cup {id}],
        !.objects = [o \in DOMAIN @ |->
            [@[o] EXCEPT
                !.consumers = IF o \in Range(inputs) THEN @ \cup {id} ELSE @,
                !.producer = IF o \in Range(outputs) THEN id ELSE @]]])

\* Task::trigger_finish_hooks: the hooks registered on the task fire.
Task_trigger_finish_hooks(s, t) ==
    IF Dead(s) THEN s ELSE Logged(s, "Task::trigger_finish_hooks", t)

\* DataObject::trigger_finish_hooks: the hooks registered on the object fire.
Object_trigger_finish_hooks(s, o) ==
    IF Dead(s) THEN s ELSE Logged(s, "DataObject::trigger_finish_hooks", o)

\* TaskRef::unlink: from the session, the inputs' consumers, the outputs' producer.
TaskRef_unlink(s, t) ==
    [s EXCEPT
        !.sessions = [@ EXCEPT ![s.tasks[t].session].tasks = @ \ {t}],
        !.objects = [o \in DOMAIN @ |->
            [@[o] EXCEPT
                !.consumers = @ \ {t},
                !.producer = IF @ = t THEN NoTask ELSE @]]]

\* DataObjectRef::unlink: from the session, the producer and the consumers.
DataObjectRef_unlink(s, o) ==
    [s EXCEPT
        !.sessions = [@ EXCEPT ![s.objects[o].session].objects = @ \ {o}],
        !.objects = [@ EXCEPT ![o].producer = NoTask, ![o].consumers = {}],
        !.tasks = [t \in DOMAIN @ |->
            [@[t] EXCEPT
                !.inputs = SelectSeq(@, LAMBDA x : x # o),
                !.outputs = SelectSeq(@, LAMBDA x : x # o),
                !.waiting_for = @ \ {o}]]]

\* DataObject::is_needed: kept by the client, or a consumer is not Finished, or
\* a consumer is scheduled on a worker that does not hold the object yet.
is_needed(s, o) ==
    \/ s.objects[o].client_keep
    \/ \E t \in s.objects[o].consumers : s.tasks[t].state # "Finished"
    \/ \E t \in s.objects[o].consumers :
          /\ s.tasks[t].scheduled # None
          /\ s.tasks[t].scheduled \notin s.objects[o].located

\* DataObject::check_consistency (the ungated check verify_submit runs).
Object_check_consistency(s, o) ==
    LET ob == s.objects[o] IN
    /\ ob.state = "Finished" =>
          ob.size # NoSize /\ (ob.data # None \/ ob.located # {})
    /\ ob.state = "Removed" =>
          ob.assigned = {} /\ ob.located = {} /\ ~is_needed(s, o)
    /\ ob.producer # NoTask => o \in Range(s.tasks[ob.producer].outputs)
    /\ \A t \in ob.consumers : o \in Range(s.tasks[t].inputs)
    /\ (ob.data # None) # (ob.producer # NoTask)

\* Task::check_consistency (the ungated check verify_submit runs).
Task_check_consistency(s, t) ==
    LET tk == s.tasks[t] IN
    /\ tk.state = "Ready" => tk.waiting_for = {} /\ tk.assigned = None
    /\ tk.state \in {"Assigned", "Running"} => tk.assigned # None
    /\ tk.state = "Finished" =>
          /\ tk.assigned = None
          /\ \A o \in Range(tk.outputs) : s.objects[o].state = "Finished"
    /\ \A o \in Range(tk.outputs) : s.objects[o].producer = t
    /\ \A o \in Range(tk.inputs) : t \in s.objects[o].consumers
    /\ tk.waiting_for \subseteq Range(tk.inputs)

\* ------------------------------------------------ State: placement engine
Rpc(kind, to, nodes, objs, tsks) ==
    [kind |-> kind, to |-> to, new_objects |-> nodes, objects |-> objs, tasks |-> tsks]

\* A variant of Placement that always names the server as the source.
Placement_server(s, o, word) == ServerSource

\* The source placement of an object's payload: the first worker holding it,
\* else the server, which asserts that the object has inline data.
Placement(s, o, word) ==
    IF s.objects[o].located # {} THEN FirstWorker(s.objects[o].located, word)
    ELSE ServerSource

PlacementAssertFails(s, o) ==
    s.objects[o].located = {} /\ s.objects[o].data = None

\* A variant of assign_object that also records the worker as a holder of the
\* object.
assign_object_located(s, o, w, word) ==
    IF Dead(s) THEN s
    ELSE IF s.objects[o].state # "Finished"
    THEN Panic(s, "assign_object: object not Finished")
    ELSE IF w \in s.objects[o].assigned
    THEN Panic(s, "assign_object: already assigned")
    ELSE IF PlacementAssertFails(s, o)
    THEN Panic(s, "assign_object: no placement and no data")
    ELSE [s EXCEPT
            !.rpcs = @ \cup {Rpc("add_nodes", w,
                        <<[id |-> o, placement |-> Placement(s, o, word),
                           assigned |-> TRUE]>>, <<>>, <<>>)},
            !.objects = [@ EXCEPT ![o].assigned = @ \cup {w},
                                  ![o].located = @ \cup {w}],
            !.workers = [@ EXCEPT ![w].assigned_objects = @ \cup {o},
                                  ![w].located_objects = @ \cup {o}]]

\* State::assign_object
assign_object(s, o, w, word) ==
    IF Dead(s) THEN s
    ELSE IF s.objects[o].state # "Finished"
    THEN Panic(s, "assign_object: object not Finished")
    ELSE IF w \in s.objects[o].assigned
    THEN Panic(s, "assign_object: already assigned")
    ELSE IF PlacementAssertFails(s, o)
    THEN Panic(s, "assign_object: no placement and no data")
    ELSE [s EXCEPT
            !.rpcs = @ \cup {Rpc("add_nodes", w,
                        <<[id |-> o, placement |-> Placement(s, o, word),
                           assigned |-> TRUE]>>, <<>>, <<>>)},
            !.objects = [@ EXCEPT ![o].assigned = @ \cup {w}],
            !.workers = [@ EXCEPT ![w].assigned_objects = @ \cup {o}]]

\* A variant of unassign_object that leaves the worker's assigned_objects alone.
unassign_object_one_sided(s, o, w) ==
    IF Dead(s) THEN s
    ELSE IF w \notin s.objects[o].assigned
    THEN Panic(s, "unassign_object: not assigned")
    ELSE [s EXCEPT
            !.rpcs = @ \cup {Rpc("unassign_objects", w, <<>>, <<o>>, <<>>)},
            !.objects = [@ EXCEPT ![o].assigned = @ \ {w}]]

\* State::unassign_object
unassign_object(s, o, w) ==
    IF Dead(s) THEN s
    ELSE IF w \notin s.objects[o].assigned
    THEN Panic(s, "unassign_object: not assigned")
    ELSE [s EXCEPT
            !.rpcs = @ \cup {Rpc("unassign_objects", w, <<>>, <<o>>, <<>>)},
            !.objects = [@ EXCEPT ![o].assigned = @ \ {w}],
            !.workers = [@ EXCEPT ![w].assigned_objects = @ \ {o}]]

\* The (object, placement) pairs assign_task collects: the inputs not assigned
\* on the worker, in input order, then every output placed on the worker.
RECURSIVE TaskInputPairs(_, _, _, _)
TaskInputPairs(s, inputs, w, word) ==
    IF inputs = <<>> THEN <<>>
    ELSE IF w \in s.objects[Head(inputs)].assigned
    THEN TaskInputPairs(s, Tail(inputs), w, word)
    ELSE <<[id |-> Head(inputs), placement |-> Placement(s, Head(inputs), word)]>>
         \o TaskInputPairs(s, Tail(inputs), w, word)

TaskOutputPairs(outputs, w) ==
    [i \in 1..Len(outputs) |-> [id |-> outputs[i], placement |-> w]]

\* The object list of the add_nodes request of assign_task: entry i (from 0)
\* is flagged assigned when i >= |t.inputs|.
TaskNodes(pairs, ninputs) ==
    [i \in 1..Len(pairs) |->
        [id |-> pairs[i].id, placement |-> pairs[i].placement,
         assigned |-> (i - 1) >= ninputs]]

\* State::assign_task
\* A variant of assign_task that leaves the state of the task as it was.
assign_task_stateless(s, t, word) ==
    IF Dead(s) THEN s
    ELSE IF s.tasks[t].scheduled = None
    THEN Panic(s, "assign_task: not scheduled")
    ELSE IF s.tasks[t].assigned # None
    THEN Panic(s, "assign_task: already assigned")
    ELSE [s EXCEPT
            !.tasks = [@ EXCEPT ![t].assigned = s.tasks[t].scheduled],
            !.workers = [@ EXCEPT
                ![s.tasks[t].scheduled] = [@ EXCEPT
                    !.assigned_tasks = @ \cup {t},
                    !.scheduled_ready_tasks = @ \ {t}]]]

assign_task(s, t, word) ==
    IF Dead(s) THEN s
    ELSE IF s.tasks[t].scheduled = None
    THEN Panic(s, "assign_task: not scheduled")
    ELSE IF s.tasks[t].assigned # None
    THEN Panic(s, "assign_task: already assigned")
    ELSE IF \E o \in Range(s.tasks[t].inputs) :
               s.tasks[t].scheduled \notin s.objects[o].assigned
               /\ PlacementAssertFails(s, o)
    THEN Panic([s EXCEPT !.tasks = [@ EXCEPT ![t].assigned = s.tasks[t].scheduled]],
               "assign_task: no placement and no data")
    ELSE [s EXCEPT
            !.rpcs = @ \cup {Rpc("add_nodes", s.tasks[t].scheduled,
                TaskNodes(TaskInputPairs(s, s.tasks[t].inputs, s.tasks[t].scheduled, word)
                          \o TaskOutputPairs(s.tasks[t].outputs, s.tasks[t].scheduled),
                          Len(s.tasks[t].inputs)),
                <<>>, <<t>>)},
            !.tasks = [@ EXCEPT ![t].assigned = s.tasks[t].scheduled,
                                ![t].state = "Assigned"],
            !.objects = [o \in DOMAIN @ |->
                [@[o] EXCEPT !.assigned =
                    IF o \in Range(s.tasks[t].outputs)
                    THEN @ \cup {s.tasks[t].scheduled} ELSE @]],
            !.workers = [@ EXCEPT
                ![s.tasks[t].scheduled] = [@ EXCEPT
                    !.assigned_tasks = @ \cup {t},
                    !.scheduled_ready_tasks = @ \ {t},
                    !.assigned_objects = @ \cup Range(s.tasks[t].outputs)]]]

\* State::update_task_assignment and State::unassign_task call each other.
RECURSIVE update_task_assignment(_, _)
RECURSIVE unassign_task(_, _)

\* Rule 1 of update_task_assignment: NotAssigned with nothing to wait for.
uta_ready(s, t) ==
    IF s.tasks[t].state = "NotAssigned" /\ s.tasks[t].waiting_for = {}
    THEN [s EXCEPT !.tasks = [@ EXCEPT ![t].state = "Ready"],
                   !.updates = [@ EXCEPT !.tasks = @ \cup {t}]]
    ELSE s

\* Rule 2: a Ready task is queued on the worker it is scheduled on.
uta_enqueue(s, t) ==
    IF s.tasks[t].state = "Ready" /\ s.tasks[t].scheduled # None
    THEN [s EXCEPT !.workers =
            [@ EXCEPT ![s.tasks[t].scheduled].scheduled_ready_tasks = @ \cup {t}]]
    ELSE s

\* Rule 3: an Assigned or Running task scheduled elsewhere is unassigned.
uta_unassigned(s, t) ==
    IF Dead(s) THEN s
    ELSE IF s.tasks[t].state # "Ready"
    THEN Panic(s, "update_task_assignment: not Ready after unassign")
    ELSE uta_enqueue(s, t)

uta_move(s, t) ==
    IF /\ s.tasks[t].state \in {"Assigned", "Running"}
       /\ s.tasks[t].assigned # s.tasks[t].scheduled
    THEN IF s.tasks[t].assigned # None
         THEN uta_unassigned(unassign_task(s, t), t)
         ELSE uta_enqueue(s, t)
    ELSE s

\* Rule 4: a Finished task must not be assigned; it is unscheduled.
uta_finished(s, t) ==
    IF Dead(s) THEN s
    ELSE IF s.tasks[t].state = "Finished"
    THEN IF s.tasks[t].assigned # None
         THEN Panic(s, "update_task_assignment: Finished task is assigned")
         ELSE [s EXCEPT !.tasks = [@ EXCEPT ![t].scheduled = None]]
    ELSE s

update_task_assignment(s, t) ==
    IF Dead(s) THEN s
    ELSE IF s.tasks[t].state = "Failed"
    THEN Panic(s, "update_task_assignment: Failed task")
    ELSE uta_finished(
             uta_move(uta_enqueue(
                 uta_ready(Logged(s, "update_task_assignment", t), t), t), t), t)

\* A variant of unassign_task that leaves the task in the worker's assigned_tasks.
unassign_task_listed(s, t) ==
    IF Dead(s) THEN s
    ELSE IF s.tasks[t].assigned = None
    THEN Panic(s, "unassign_task: not assigned")
    ELSE IF s.tasks[t].scheduled = s.tasks[t].assigned
    THEN Panic(s, "unassign_task: scheduled on the assigned worker")
    ELSE update_task_assignment(
            [s EXCEPT
                !.rpcs = @ \cup {Rpc("stop_tasks", s.tasks[t].assigned,
                                     <<>>, <<>>, <<t>>)},
                !.tasks = [@ EXCEPT ![t].assigned = None, ![t].state = "Ready"]], t)

unassign_task(s, t) ==
    IF Dead(s) THEN s
    ELSE IF s.tasks[t].assigned = None
    THEN Panic(s, "unassign_task: not assigned")
    ELSE IF s.tasks[t].scheduled = s.tasks[t].assigned
    THEN Panic(s, "unassign_task: scheduled on the assigned worker")
    ELSE update_task_assignment(
            [s EXCEPT
                !.rpcs = @ \cup {Rpc("stop_tasks", s.tasks[t].assigned,
                                     <<>>, <<>>, <<t>>)},
                !.tasks = [@ EXCEPT ![t].assigned = None, ![t].state = "Ready"],
                !.workers = [@ EXCEPT
                    ![s.tasks[t].assigned].assigned_tasks = @ \ {t}]], t)

\* The worker part of update_object_assignments: match the schedule on `w`.
uoa_worker(s, o, w, word) ==
    IF o \in s.workers[w].scheduled_objects
    THEN IF o \notin s.workers[w].assigned_objects /\ s.objects[o].state = "Finished"
         THEN assign_object(s, o, w, word)
         ELSE s
    ELSE IF /\ o \in s.workers[w].assigned_objects
            /\ \/ ~is_needed(s, o)
               \/ Cardinality(s.objects[o].located) > 2
               \/ w \notin s.objects[o].located
         THEN unassign_object(s, o, w)
         ELSE s

\* A variant of uoa_remove that sets the state and unassigns nowhere.
uoa_remove_marked(s, o) ==
    IF ~is_needed(s, o)
    THEN [s EXCEPT !.objects = [@ EXCEPT ![o].state = "Removed"]]
    ELSE s

\* Not scheduled and not needed: unassigned everywhere and set to Removed.
uoa_remove(s, o) ==
    IF ~is_needed(s, o)
    THEN Bind(FoldSet(LAMBDA a, wa : unassign_object(a, o, wa), s,
                      s.objects[o].assigned),
              LAMBDA a : [a EXCEPT !.objects = [@ EXCEPT ![o].state = "Removed"]])
    ELSE s

\* Scheduled, and located on more workers than scheduled on: the located
\* workers outside the schedule are unassigned while |located| >= 2.
uoa_prune(s, o) ==
    IF Cardinality(s.objects[o].located) > Cardinality(s.objects[o].scheduled)
    THEN FoldSet(LAMBDA a, wa :
                    IF Dead(a) THEN a
                    ELSE IF wa \notin a.objects[o].scheduled
                            /\ Cardinality(a.objects[o].located) >= 2
                    THEN unassign_object(a, o, wa)
                    ELSE a,
                 s, s.objects[o].located)
    ELSE s

uoa_schedule(s, o) ==
    IF s.objects[o].scheduled = {} THEN uoa_remove(s, o) ELSE uoa_prune(s, o)

\* State::update_object_assignments; `w` is None when no worker is given.
update_object_assignments(s, o, w, word) ==
    IF Dead(s) THEN s
    ELSE IF s.objects[o].state # "Finished" THEN s
    ELSE Bind(IF w # None THEN uoa_worker(s, o, w, word) ELSE s,
              LAMBDA a : uoa_schedule(a, o))

\* State::unkeep_object
unkeep_object(s, o, word) ==
    update_object_assignments(
        [s EXCEPT !.objects = [@ EXCEPT ![o].client_keep = FALSE]], o, None, word)

\* ------------------------------------------------ State: graph mutation API
\* State::add_worker
add_worker(s, address, cpus) ==
    IF address \in s.graph.workers THEN Err(s, "add_worker: duplicate id")
    ELSE Ok([s EXCEPT !.workers = Put(@, address, NewWorker(cpus)),
                      !.graph = [@ EXCEPT !.workers = @ \cup {address}]])

\* State::remove_worker
remove_worker(s, w) == Panic(s, "remove_worker: unimplemented")

\* State::fail_worker
fail_worker(s, w, cause) ==
    IF s.workers[w].error # None THEN Panic(s, "fail_worker: already failed")
    ELSE Panic([s EXCEPT !.workers = [@ EXCEPT ![w].error = cause]],
               "fail_worker: worker error")

\* State::add_client
add_client(s, address) ==
    IF address \in s.graph.clients THEN Err(s, "add_client: duplicate id")
    ELSE Ok([s EXCEPT !.clients = Put(@, address, NewClient),
                      !.graph = [@ EXCEPT !.clients = @ \cup {address}]])

\* A variant of new_session_id that hands out the counter without advancing it.
new_session_id_stuck(s) == s

\* Graph::new_session_id
new_session_id(s) ==
    [s EXCEPT !.graph = [@ EXCEPT !.session_id_counter = @ + 1]]

\* State::add_session
add_session(s, client) ==
    Bind(new_session_id(s),
         LAMBDA a : Ok(SessionRef_new(a, a.graph.session_id_counter, client)))

\* State::remove_object
remove_object(s, o) ==
    IF Dead(s) THEN s
    ELSE Bind(FoldSet(LAMBDA a, w : unassign_object(a, o, w), s,
                      s.objects[o].assigned),
              LAMBDA a :
                IF o \notin a.graph.objects
                THEN Panic(DataObjectRef_unlink(a, o), "remove_object: not in graph")
                ELSE Ok([DataObjectRef_unlink(a, o) EXCEPT
                            !.graph = [@ EXCEPT !.objects = @ \ {o}]]))

\* State::remove_task
remove_task(s, t) ==
    IF Dead(s) THEN s
    ELSE Bind(IF s.tasks[t].assigned # None THEN unassign_task(s, t) ELSE s,
              LAMBDA a :
                IF t \notin a.graph.tasks
                THEN Panic(TaskRef_unlink(a, t), "remove_task: not in graph")
                ELSE Ok([TaskRef_unlink(a, t) EXCEPT
                            !.graph = [@ EXCEPT !.tasks = @ \ {t}]]))

\* State::clear_session
clear_session(s, sid) ==
    IF Dead(s) THEN s
    ELSE Try(FoldIds(LAMBDA a, t : remove_task(a, t), s, s.sessions[sid].tasks),
             LAMBDA a : FoldIds(LAMBDA b, o : remove_object(b, o), a,
                                a.sessions[sid].objects))

\* The tail of remove_session: out of the Graph map, then out of the owner.
rs_remove(s, sid) ==
    IF sid \notin s.graph.sessions
    THEN Panic(s, "remove_session: not in graph.sessions")
    ELSE IF sid \notin s.clients[s.sessions[sid].client].sessions
    THEN Panic([s EXCEPT !.graph = [@ EXCEPT !.sessions = @ \ {sid}]],
               "remove_session: not owned by the client")
    ELSE Ok([s EXCEPT
                !.graph = [@ EXCEPT !.sessions = @ \ {sid}],
                !.clients = [@ EXCEPT ![s.sessions[sid].client].sessions = @ \ {sid}]])

\* State::remove_session
remove_session(s, sid) ==
    IF Dead(s) THEN s
    ELSE Try(clear_session(s, sid), LAMBDA a : rs_remove(a, sid))

\* State::fail_session
fail_session(s, sid, cause) ==
    IF Dead(s) THEN s
    ELSE IF s.sessions[sid].error # None
    THEN Panic(s, "fail_session: already failed")
    ELSE clear_session([s EXCEPT !.sessions = [@ EXCEPT ![sid].error = cause]], sid)

\* State::remove_client
remove_client(s, c) ==
    IF Dead(s) THEN s
    ELSE Try(FoldSet(LAMBDA a, sid : IF Failed(a) THEN a ELSE remove_session(a, sid), s,
                     s.clients[c].sessions),
             LAMBDA a :
                IF c \notin a.graph.clients
                THEN Panic(a, "remove_client: not in graph")
                ELSE Ok([a EXCEPT !.graph = [@ EXCEPT !.clients = @ \ {c}]]))

\* A variant of add_object that creates the object before it looks for the id.
add_object_unchecked(s, session, id, client_keep, data) ==
    IF id \in s.graph.objects
    THEN Err(DataObjectRef_new(s, session, id, client_keep, data),
             "add_object: duplicate id")
    ELSE Ok([DataObjectRef_new(s, session, id, client_keep, data) EXCEPT
                !.graph = [@ EXCEPT !.objects = @ \cup {id}],
                !.updates = [@ EXCEPT !.new_objects = @ \cup {id}]])

\* State::add_object
add_object(s, session, id, client_keep, data) ==
    IF id \in s.graph.objects THEN Err(s, "add_object: duplicate id")
    ELSE Ok([DataObjectRef_new(s, session, id, client_keep, data) EXCEPT
                !.graph = [@ EXCEPT !.objects = @ \cup {id}],
                !.updates = [@ EXCEPT !.new_objects = @ \cup {id}]])

\* State::add_task
add_task(s, session, id, inputs, outputs) ==
    IF id \in s.graph.tasks THEN Err(s, "add_task: duplicate id")
    ELSE Try(TaskRef_new(s, session, id, inputs, outputs),
             LAMBDA a : Ok([a EXCEPT
                   !.graph = [@ EXCEPT !.tasks = @ \cup {id}],
                   !.updates = [@ EXCEPT !.new_tasks = @ \cup {id}]]))

\* State::object_by_id
object_by_id(s, id) ==
    IF id \in s.graph.objects THEN Ok(s) ELSE Err(s, "object_by_id: not found")

\* State::session_by_id
session_by_id(s, id) ==
    IF id \in s.graph.sessions THEN Ok(s) ELSE Err(s, "session_by_id: not found")

\* A variant of verify_submit that accepts an object with neither.
verify_submit_lax(s, tsks, objs) ==
    IF Dead(s) THEN s
    ELSE IF \E o \in objs : s.objects[o].producer # NoTask /\ s.objects[o].data # None
    THEN Err(s, "verify_submit: both producer and data")
    ELSE Ok(s)

\* State::verify_submit. No check of acyclicity is made.
verify_submit(s, tsks, objs) ==
    IF Dead(s) THEN s
    ELSE IF \E o \in objs : s.objects[o].producer # NoTask /\ s.objects[o].data # None
    THEN Err(s, "verify_submit: both producer and data")
    ELSE IF \E o \in objs : s.objects[o].producer = NoTask /\ s.objects[o].data = None
    THEN Err(s, "verify_submit: neither producer nor data")
    ELSE IF \E o \in objs : ~Object_check_consistency(s, o)
    THEN Err(s, "verify_submit: object check_consistency")
    ELSE IF \E t \in tsks : ~Task_check_consistency(s, t)
    THEN Err(s, "verify_submit: task check_consistency")
    ELSE Ok(s)

\* ------------------------------------------------ State: worker updates
\* One task update of updates_from_worker: the scheduler is informed, then the
\* reported state is applied. The event passed to fail_session is
\* `unimplemented!()`, which is evaluated before fail_session is entered.
ufw_task_state(s, t, state) ==
    CASE state = "Finished" ->
            Task_trigger_finish_hooks(
                update_task_assignment(
                    [s EXCEPT !.tasks = [@ EXCEPT ![t].state = "Finished"]], t), t)
      [] state = "Running" ->
            IF s.tasks[t].state # "Assigned"
            THEN Panic(s, "updates_from_worker: Running for a task not Assigned")
            ELSE [s EXCEPT !.tasks = [@ EXCEPT ![t].state = "Running"]]
      [] state = "Failed" ->
            Panic([s EXCEPT !.tasks = [@ EXCEPT ![t].state = "Failed"]],
                  "updates_from_worker: unimplemented")
      [] OTHER -> Panic(s, "updates_from_worker: invalid task state")

ufw_task(s, w, u) ==
    IF Dead(s) THEN s
    ELSE ufw_task_state([s EXCEPT !.updates = [@ EXCEPT !.tasks = @ \cup {u.task}]],
                        u.task, u.state)

\* A variant of ufw_consumer that leaves the object in the consumer's
\* waiting_for.
ufw_consumer_waiting(s, o, c) ==
    IF Dead(s) THEN s
    ELSE IF s.tasks[c].state # "NotAssigned"
    THEN Panic(s, "updates_from_worker: consumer not NotAssigned")
    ELSE update_task_assignment(s, c)

\* The first completion of an object: every consumer stops waiting for it.
ufw_consumer(s, o, c) ==
    IF Dead(s) THEN s
    ELSE IF s.tasks[c].state # "NotAssigned"
    THEN Panic(s, "updates_from_worker: consumer not NotAssigned")
    ELSE update_task_assignment(
             [s EXCEPT !.tasks = [@ EXCEPT ![c].waiting_for = @ \ {o}]], c)

\* A variant of ufw_finished that does not record the reported size.
ufw_finished_unsized(s, w, o, size, word) ==
    CASE s.objects[o].state = "Unfinished" ->
            Bind(FoldIds(LAMBDA a, c : ufw_consumer(a, o, c),
                         Object_trigger_finish_hooks(
                             [s EXCEPT !.objects = [@ EXCEPT ![o].state = "Finished"]],
                             o),
                         s.objects[o].consumers),
                 LAMBDA a : update_object_assignments(a, o, w, word))
      [] s.objects[o].state = "Finished" ->
            update_object_assignments(s, o, w, word)
      [] OTHER -> Panic(s, "updates_from_worker: object is Removed")

\* A Finished report of an object, after `located` has been updated.
ufw_finished(s, w, o, size, word) ==
    CASE s.objects[o].state = "Unfinished" ->
            Bind(FoldIds(LAMBDA a, c : ufw_consumer(a, o, c),
                         Object_trigger_finish_hooks(
                             [s EXCEPT !.objects = [@ EXCEPT ![o].state = "Finished",
                                                             ![o].size = size]],
                             o),
                         s.objects[o].consumers),
                 LAMBDA a : update_object_assignments(a, o, w, word))
      [] s.objects[o].state = "Finished" ->
            update_object_assignments(s, o, w, word)
      [] OTHER -> Panic(s, "updates_from_worker: object is Removed")

\* A variant of ufw_object that takes the reporting worker for the only
\* holder of the object.
ufw_object_sole_holder(s, w, u, word) ==
    IF Dead(s) THEN s
    ELSE IF u.state # "Finished"
    THEN Panic(s, "updates_from_worker: invalid object state")
    ELSE ufw_finished(
            [s EXCEPT
                !.updates = [@ EXCEPT !.objects =
                    Put(@, u.object,
                        (IF u.object \in DOMAIN @ THEN @[u.object] ELSE {}) \cup {w})],
                !.objects = [@ EXCEPT ![u.object].located = {w}],
                !.workers = [x \in DOMAIN @ |->
                    [@[x] EXCEPT !.located_objects =
                        IF x = w THEN @ \cup {u.object} ELSE @ \ {u.object}]]],
            w, u.object, u.size, word)

\* One object update of updates_from_worker.
ufw_object(s, w, u, word) ==
    IF Dead(s) THEN s
    ELSE IF u.state # "Finished"
    THEN Panic([s EXCEPT !.updates = [@ EXCEPT !.objects =
                    Put(@, u.object,
                        (IF u.object \in DOMAIN @ THEN @[u.object] ELSE {}) \cup {w})]],
               "updates_from_worker: invalid object state")
    ELSE ufw_finished(
            [s EXCEPT
                !.updates = [@ EXCEPT !.objects =
                    Put(@, u.object,
                        (IF u.object \in DOMAIN @ THEN @[u.object] ELSE {}) \cup {w})],
                !.objects = [@ EXCEPT ![u.object].located = @ \cup {w}],
                !.workers = [@ EXCEPT ![w].located_objects = @ \cup {u.object}]],
            w, u.object, u.size, word)

\* State::updates_from_worker
updates_from_worker(s, w, obj_updates, task_updates, word) ==
    FoldSeq(LAMBDA a, u : ufw_object(a, w, u, word),
            FoldSeq(LAMBDA a, u : ufw_task(a, w, u), s, task_updates),
            obj_updates)

\* ------------------------------------------------ State: the turn
\* The body of the while loop of distribute_tasks: a ready task is popped and
\* assigned.
dw_pop(s, w, t, word) ==
    IF s.tasks[t].scheduled # w
    THEN Panic([s EXCEPT !.workers = [@ EXCEPT ![w].scheduled_ready_tasks = @ \ {t}]],
               "distribute_tasks: task not scheduled on the worker")
    ELSE assign_task([s EXCEPT !.workers =
                        [@ EXCEPT ![w].scheduled_ready_tasks = @ \ {t}]], t, word)

\* A variant of dw_step that tests the limit with <=.
dw_step_inclusive(s, w, word, tord) ==
    IF Dead(s) THEN s
    ELSE IF /\ Cardinality(s.workers[w].assigned_tasks) <= OverbookLimit
            /\ s.workers[w].scheduled_ready_tasks # {}
    THEN dw_pop(s, w, FirstId(s.workers[w].scheduled_ready_tasks, tord), word)
    ELSE s

\* One test of the loop's condition, and the body when it holds.
dw_step(s, w, word, tord) ==
    IF Dead(s) THEN s
    ELSE IF /\ Cardinality(s.workers[w].assigned_tasks) < OverbookLimit
            /\ s.workers[w].scheduled_ready_tasks # {}
    THEN dw_pop(s, w, FirstId(s.workers[w].scheduled_ready_tasks, tord), word)
    ELSE s

\* `n` tests of the loop's condition: the first half of them, then the rest.
RECURSIVE dw_loop(_, _, _, _, _)
dw_loop(s, w, n, word, tord) ==
    IF n = 0 \/ s.panic # None THEN s
    ELSE IF n = 1 THEN dw_step(s, w, word, tord)
    ELSE dw_loop(dw_loop(s, w, n \div 2, word, tord), w, n - n \div 2, word, tord)

\* The while loop of distribute_tasks on one worker. Every turn of the loop
\* pops one ready task, so it ends within as many turns as there are ready
\* tasks, and a condition that has failed goes on failing.
distribute_worker(s, w, word, tord) ==
    dw_loop(s, w, Cardinality(s.workers[w].scheduled_ready_tasks), word, tord)

\* State::distribute_tasks
distribute_tasks(s, word, tord) ==
    FoldSet(LAMBDA a, w : distribute_worker(a, w, word, tord), s, s.graph.workers)

\* Scheduler::schedule (RandomScheduler), by its contract: it changes only
\* `scheduled` fields and reports what it changed. `plan.tasks` maps tasks to
\* their new worker, `plan.objects` maps objects to their new set of workers.
schedule_tasks(s, plan) ==
    [s EXCEPT !.tasks = [t \in DOMAIN @ |->
        IF t \in DOMAIN plan.tasks
        THEN [@[t] EXCEPT !.scheduled = plan.tasks[t]] ELSE @[t]]]

schedule_objects(s, plan) ==
    [s EXCEPT
        !.objects = [o \in DOMAIN @ |->
            IF o \in DOMAIN plan.objects
            THEN [@[o] EXCEPT !.scheduled = plan.objects[o]] ELSE @[o]],
        !.workers = [w \in DOMAIN @ |->
            [@[w] EXCEPT !.scheduled_objects =
                (@ \ {o \in DOMAIN plan.objects : w \notin plan.objects[o]})
                \cup {o \in DOMAIN plan.objects : w \in plan.objects[o]}]]]

schedule(s, plan) == schedule_objects(schedule_tasks(s, plan), plan)

changed_tasks(s, plan) ==
    {t \in DOMAIN plan.tasks : plan.tasks[t] # s.tasks[t].scheduled}

changed_objects(s, plan) ==
    {p \in s.graph.workers \X (DOMAIN plan.objects) :
        (p[1] \in plan.objects[p[2]]) # (p[1] \in s.objects[p[2]].scheduled)}

\* State::run_scheduler
run_scheduler(s, plan, word) ==
    FoldIds(LAMBDA a, t : update_task_assignment(a, t),
            FoldSet(LAMBDA a, p : update_object_assignments(a, p[2], p[1], word),
                    [schedule(s, plan) EXCEPT !.updates = EmptyUpdates],
                    changed_objects(s, plan)),
            changed_tasks(s, plan))

\* A variant of turn that runs the scheduler whatever the update set holds.
turn_unconditional(s, plan, word, tord) ==
    distribute_tasks(run_scheduler(s, plan, word), word, tord)

\* StateRef::turn
turn(s, plan, word, tord) ==
    distribute_tasks(
        IF ~UpdatesIsEmpty(s.updates) THEN run_scheduler(s, plan, word) ELSE s,
        word, tord)

\* ------------------------------------------------ reference counting
\* A cell lives while something refers to it: a Graph map, the update set, a
\* worker's sets, a session, or a live cell linked to it.
RootTasks(s) ==
    s.graph.tasks \cup s.updates.new_tasks \cup s.updates.tasks
    \cup UNION {s.workers[w].assigned_tasks \cup s.workers[w].scheduled_ready_tasks
                : w \in DOMAIN s.workers}
    \cup UNION {s.sessions[x].tasks : x \in DOMAIN s.sessions}

RootObjects(s) ==
    s.graph.objects \cup s.updates.new_objects \cup DOMAIN s.updates.objects
    \cup UNION {s.workers[w].assigned_objects \cup s.workers[w].located_objects
                \cup s.workers[w].scheduled_objects : w \in DOMAIN s.workers}
    \cup UNION {s.sessions[x].objects : x \in DOMAIN s.sessions}

LinkedTasks(s, O) ==
    {t \in DOMAIN s.tasks : \E o \in O :
        t = s.objects[o].producer \/ t \in s.objects[o].consumers}

LinkedObjects(s, T) ==
    {o \in DOMAIN s.objects : \E t \in T :
        o \in Range(s.tasks[t].inputs) \cup Range(s.tasks[t].outputs)}

RECURSIVE LiveCells(_, _, _)
LiveCells(s, T, O) ==
    IF LinkedTasks(s, O) \subseteq T /\ LinkedObjects(s, T) \subseteq O
    THEN [tasks |-> T, objects |-> O]
    ELSE LiveCells(s, T \cup LinkedTasks(s, O), O \cup LinkedObjects(s, T))

Sweep(s, live) ==
    [s EXCEPT !.tasks = Drop(@, DOMAIN @ \ live.tasks),
              !.objects = Drop(@, DOMAIN @ \ live.objects),
              !.clients = Drop(@, {c \in DOMAIN @ :
                                c \notin s.graph.clients /\ @[c].sessions = {}})]

Collect(s) == Sweep(s, LiveCells(s, RootTasks(s), RootObjects(s)))

\* ------------------------------------------------ the workers' side
\* What a worker has been sent so far (add_nodes): it reports only on that.
Learn(k, sent) ==
    [w \in WorkerIds |->
        [tasks |-> k[w].tasks \cup
            UNION {Range(r.tasks) : r \in {x \in sent : x.kind = "add_nodes" /\ x.to = w}},
         objects |-> k[w].objects \cup
            UNION {{e.id : e \in Range(r.new_objects)} :
                   r \in {x \in sent : x.kind = "add_nodes" /\ x.to = w}}]]

\* ------------------------------------------------ the handlers
\* `last` is the record of the last call: the operation, who called, the task
\* and the object it was about, the reported state, whether the reported task
\* was assigned on the reporting worker, and how the call ended.
Call(op, who, task, object, report, held) ==
    [op |-> op, who |-> who, task |-> task, object |-> object, report |-> report,
     held |-> held]

Outcome(c) ==
    IF c.panic # None THEN "panic" ELSE IF c.ret = "err" THEN c.msg ELSE "ok"

Store(c, l) ==
    /\ workers' = c.workers
    /\ tasks' = c.tasks
    /\ objects' = c.objects
    /\ sessions' = c.sessions
    /\ clients' = c.clients
    /\ graph' = c.graph
    /\ updates' = c.updates
    /\ rpcs' = c.rpcs
    /\ panic' = c.panic
    /\ known' = Learn(known, c.rpcs)
    /\ last' = [op |-> l.op, who |-> l.who, task |-> l.task, object |-> l.object,
                report |-> l.report, held |-> l.held, ret |-> Outcome(c),
                view |-> c.view]

\* A panic aborts the process: nothing of its memory is left.
Wreck(s) ==
    [workers |-> EmptyMap, tasks |-> EmptyMap, objects |-> EmptyMap,
     sessions |-> EmptyMap, clients |-> EmptyMap,
     graph |-> [workers |-> {}, tasks |-> {}, objects |-> {}, sessions |-> {},
                clients |-> {}, session_id_counter |-> 0],
     updates |-> EmptyUpdates, rpcs |-> {}, panic |-> s.panic, ret |-> s.ret,
     msg |-> s.msg, view |-> EmptyMap, log |-> s.log]

\* ------------------------------------------------ connections
\* The connections the server has accepted, each with its remote address.
ConnIds == {"K1", "K2"}

ConnAddress(k) ==
    IF k = "K1" THEN [ip |-> "10.0.0.1", port |-> 40001]
    ELSE [ip |-> "10.0.0.2", port |-> 40002]

\* No address, no request in flight, no capability.
NoAddress == [ip |-> None, port |-> 0]

NoProbe == [worker_id |-> NoAddress, cpus |-> 0]

NoService == [kind |-> None, id |-> NoAddress]

\* ServerBootstrapImpl::new
ServerBootstrapImpl_new(address) == [registered |-> FALSE, address |-> address]

\* A connection: its Bootstrap, the worker_resources request in flight (with
\* what its continuation captured), the capability a registration returned
\* and the worker id it returned.
NewConn(k) ==
    [boot |-> ServerBootstrapImpl_new(ConnAddress(k)), probe |-> NoProbe,
     service |-> NoService, worker_id |-> NoAddress]

\* A request that does not go through a Bootstrap leaves the connections alone.
Commit(s, l) ==
    /\ Store(IF Dead(s) THEN Wreck(s) ELSE Collect(s), l)
    /\ conns' = conns

\* A request on a connection.
CommitConn(s, l, cs) ==
    /\ Store(IF Dead(s) THEN Wreck(s) ELSE Collect(s), l)
    /\ conns' = cs

Init ==
    /\ workers = EmptyMap
    /\ tasks = EmptyMap
    /\ objects = EmptyMap
    /\ sessions = EmptyMap
    /\ clients = EmptyMap
    /\ graph = [workers |-> {}, tasks |-> {}, objects |-> {}, sessions |-> {},
                clients |-> {}, session_id_counter |-> 0]
    /\ updates = EmptyUpdates
    /\ rpcs = {}
    /\ panic = None
    /\ known = [w \in WorkerIds |-> [tasks |-> {}, objects |-> {}]]
    /\ conns = [k \in ConnIds |-> NewConn(k)]
    /\ last = [op |-> "new", who |-> None, task |-> NoTask, object |-> NoTask,
               report |-> None, held |-> FALSE, ret |-> "ok", view |-> EmptyMap]

\* A connection registers as a client (ServerBootstrapImpl::register_as_client).
AddClient(c) ==
    /\ panic = None
    /\ Commit(add_client(St, c), Call("add_client", c, NoTask, NoTask, None, FALSE))

\* A client connection is closed.
RemoveClient(c) ==
    /\ panic = None
    /\ c \in graph.clients
    /\ Commit(remove_client(St, c), Call("remove_client", c, NoTask, NoTask, None, FALSE))

\* A connection registers as a worker (ServerBootstrapImpl::register_as_worker).
AddWorker(w, cpus) ==
    /\ panic = None
    /\ Commit(add_worker(St, w, cpus), Call("add_worker", w, NoTask, NoTask, None, FALSE))

\* A worker connection is closed.
RemoveWorker(w) ==
    /\ panic = None
    /\ w \in graph.workers
    /\ Commit(remove_worker(St, w), Call("remove_worker", w, NoTask, NoTask, None, FALSE))

\* ClientService: a new session.
AddSession(c) ==
    /\ panic = None
    /\ c \in graph.clients
    /\ graph.session_id_counter < MaxSessions
    /\ Commit(add_session(St, c), Call("add_session", c, NoTask, NoTask, None, FALSE))

\* ClientService: the client closes a session it holds.
CloseSession(sid) ==
    /\ panic = None
    /\ sid \in DOMAIN sessions
    /\ sessions[sid].client \in graph.clients
    /\ Commit(remove_session(St, sid),
              Call("remove_session", sessions[sid].client, NoTask, NoTask, None, FALSE))

\* ClientService: unkeep.
Unkeep(o, word) ==
    /\ panic = None
    /\ o \in graph.objects
    /\ objects[o].client_keep
    /\ Commit(unkeep_object(St, o, word), Call("unkeep_object", None, NoTask, o, None, FALSE))

\* ------------------------------------------------ ClientService: submit
\* A submission: objects [local, keep, data] and tasks [local, inputs, outputs]
\* of one session. The handler adds the objects, then the tasks (whose object
\* ids it resolves with object_by_id), then runs verify_submit on what it has
\* created; when any step fails it removes what it created, tasks first.
Qualify(sid, locals) == [i \in 1..Len(locals) |-> <<sid, locals[i]>>]

submit_objects(s, sid, specs) ==
    FoldSeq(LAMBDA a, h :
                IF Failed(a) THEN a
                ELSE add_object(a, sid, <<sid, h.local>>, h.keep, h.data),
            s, specs)

submit_task(s, sid, h) ==
    IF \E o \in Range(Qualify(sid, h.inputs)) \cup Range(Qualify(sid, h.outputs)) :
          Failed(object_by_id(s, o))
    THEN Err(s, "object_by_id: not found")
    ELSE add_task(s, sid, <<sid, h.local>>,
                  Qualify(sid, h.inputs), Qualify(sid, h.outputs))

submit_tasks(s, sid, specs) ==
    FoldSeq(LAMBDA a, h : IF Failed(a) THEN a ELSE submit_task(a, sid, h), s, specs)

\* What verify_submit is given: for every submitted object, whether it has a
\* producer and whether it has data.
SubmitView(s, objs) ==
    [o \in objs |-> <<s.objects[o].producer # NoTask, s.objects[o].data # None>>]

submit_rollback(s, tsks, objs) ==
    Bind(FoldIds(LAMBDA a, o : remove_object(a, o),
                 FoldIds(LAMBDA a, t : remove_task(a, t), s, tsks),
                 objs),
         LAMBDA b : Err(b, s.msg))

submit_verified(v, tsks, objs) ==
    IF Failed(v) THEN submit_rollback(v, tsks, objs) ELSE v

submit_created(a, tsks, objs) ==
    IF Dead(a) THEN a
    ELSE IF a.ret = "err" THEN submit_rollback(a, tsks, objs)
    ELSE submit_verified(
            verify_submit([a EXCEPT !.view = SubmitView(a, objs)], tsks, objs),
            tsks, objs)

submit_added(s, a) ==
    submit_created(a, a.graph.tasks \ s.graph.tasks, a.graph.objects \ s.graph.objects)

submit(s, sid, batch) ==
    submit_added(s, submit_tasks(submit_objects(s, sid, batch.objects), sid, batch.tasks))

ObjectSpecs ==
    [local : ObjectLocals, keep : BOOLEAN, data : Payloads \cup {None}]

LocalSeqs == {<<>>} \cup {<<o>> : o \in ObjectLocals}

TaskSpecs == [local : TaskLocals, inputs : LocalSeqs, outputs : LocalSeqs]

ObjectBatches ==
    {SetToSeq({<<x, x.local>> : x \in X}) :
        X \in {Y \in SUBSET ObjectSpecs : \A a, b \in Y : a.local = b.local => a = b}}

TaskBatches ==
    {SetToSeq({<<x, x.local>> : x \in X}) :
        X \in {Y \in SUBSET TaskSpecs : \A a, b \in Y : a.local = b.local => a = b}}

Unpair(q) == [i \in 1..Len(q) |-> q[i][1]]

Batches ==
    {[objects |-> Unpair(ob), tasks |-> Unpair(tb)] :
        ob \in ObjectBatches, tb \in TaskBatches} \ {[objects |-> <<>>, tasks |-> <<>>]}

Obj(l, keep, data) == [local |-> l, keep |-> keep, data |-> data]

Tsk(l, ins, outs) == [local |-> l, inputs |-> ins, outputs |-> outs]

\* The submissions of the placement runs: a data object and a task that
\* consumes it, in one submission or in two.
Workloads ==
    {[objects |-> <<Obj(1, FALSE, "hello"), Obj(2, k, None)>>,
      tasks |-> <<Tsk(1, <<1>>, <<2>>)>>] : k \in BOOLEAN}
    \cup {[objects |-> <<Obj(1, k, "hello")>>, tasks |-> <<>>] : k \in BOOLEAN}
    \cup {[objects |-> <<Obj(2, TRUE, None)>>, tasks |-> <<Tsk(1, <<1>>, <<2>>)>>]}

\* Ids the client may use: not those of a cell that left the graph and is
\* still referred to (the model keys the heaps by id).
FreshOrInGraph(sid, batch) ==
    /\ \A i \in 1..Len(batch.objects) :
          <<sid, batch.objects[i].local>> \in DOMAIN objects
              => <<sid, batch.objects[i].local>> \in graph.objects
    /\ \A i \in 1..Len(batch.tasks) :
          <<sid, batch.tasks[i].local>> \in DOMAIN tasks
              => <<sid, batch.tasks[i].local>> \in graph.tasks

\* A submission that uses no id of the graph.
FreshBatch(sid, batch) ==
    /\ \A i \in 1..Len(batch.objects) :
          <<sid, batch.objects[i].local>> \notin graph.objects
    /\ \A i \in 1..Len(batch.tasks) :
          <<sid, batch.tasks[i].local>> \notin graph.tasks

Submit(sid, batch) ==
    /\ panic = None
    /\ sid \in DOMAIN sessions
    /\ sessions[sid].client \in graph.clients
    /\ FreshOrInGraph(sid, batch)
    /\ Commit(submit(St, sid, batch),
              Call("submit", sessions[sid].client, NoTask, NoTask, None, FALSE))

\* ------------------------------------------------ WorkerUpstream
TaskReports == {"Running", "Finished", "Failed", "Assigned"}

ObjectReports == {"Finished", "Unfinished"}

TaskUpdates(w) ==
    {<<>>} \cup {<<[task |-> t, state |-> st]>> :
                    t \in known[w].tasks \cap graph.tasks, st \in TaskReports}

ObjectUpdates(w) ==
    {<<>>} \cup {<<[object |-> o, state |-> st, size |-> sz]>> :
                    o \in known[w].objects \cap graph.objects,
                    st \in ObjectReports, sz \in Sizes}

\* The messages of a worker: one task update, one object update, or the end
\* of a task together with one of its outputs.
Reports(w) ==
    {<<ou, <<>>>> : ou \in ObjectUpdates(w) \ {<<>>}}
    \cup {<<<<>>, tu>> : tu \in TaskUpdates(w) \ {<<>>}}
    \cup {m \in (ObjectUpdates(w) \ {<<>>}) \X (TaskUpdates(w) \ {<<>>}) :
            /\ m[2][1].state = "Finished"
            /\ m[1][1].state = "Finished"
            /\ m[1][1].object \in Range(tasks[m[2][1].task].outputs)}

\* WorkerUpstream: the worker pushes its state updates.
WorkerUpdates(w, ou, tu, word) ==
    /\ panic = None
    /\ w \in graph.workers
    /\ Commit(updates_from_worker(St, w, ou, tu, word),
              Call("updates_from_worker", w,
                   IF tu = <<>> THEN NoTask ELSE tu[1].task,
                   IF ou = <<>> THEN NoTask ELSE ou[1].object,
                   IF tu = <<>> THEN None ELSE tu[1].state,
                   tu # <<>> /\ tasks[tu[1].task].assigned = w))

\* ------------------------------------------------ the reactor's turn
EligibleWorkers == {w \in graph.workers : workers[w].cpus > 0}

SchedTasks ==
    {t \in updates.new_tasks \cup updates.tasks :
        tasks[t].state \notin {"Finished", "Failed"}}

SchedObjects ==
    (updates.new_objects \cup DOMAIN updates.objects
     \cup UNION {Range(tasks[t].inputs) \cup Range(tasks[t].outputs) : t \in SchedTasks})
    \cap DOMAIN objects

\* What the scheduler may decide: a worker for every task of the update set
\* (none when no worker can host it); it may co-schedule the inputs of the
\* tasks at the workers it picked.
TaskPlans ==
    IF EligibleWorkers = {} THEN {EmptyMap} ELSE [SchedTasks -> EligibleWorkers]

CoSchedule(tp) ==
    [o \in {x \in SchedObjects : \E t \in DOMAIN tp : x \in Range(tasks[t].inputs)} |->
        objects[o].scheduled
        \cup {tp[t] : t \in {y \in DOMAIN tp : o \in Range(tasks[y].inputs)}}]

Plans ==
    UNION {{[tasks |-> tp, objects |-> op] : op \in {EmptyMap, CoSchedule(tp)}} :
           tp \in TaskPlans}

\* What a scheduler that ignored the update set could decide: a worker for
\* every task of the graph that has not ended.
AnyPlans ==
    IF EligibleWorkers = {} THEN {[tasks |-> EmptyMap, objects |-> EmptyMap]}
    ELSE {[tasks |-> tp, objects |-> EmptyMap] :
            tp \in [{t \in graph.tasks : tasks[t].state \notin {"Finished", "Failed"}}
                        -> EligibleWorkers]}

\* The orders that can make a difference in the state at hand: the first
\* holder of an object depends on the order only when two workers can hold
\* it, the order of popping ready tasks only when the over-book limit cuts in.
PlacementOrders ==
    IF Cardinality(graph.workers) >= 2
       /\ \E o \in DOMAIN objects : objects[o].located # {}
    THEN WorkerOrders ELSE {"asc"}

PopOrders ==
    IF Cardinality(DOMAIN tasks) > OverbookLimit THEN TaskOrders ELSE {"asc"}

\* The reactor's loop calls turn().
Turn(plan, word, tord) ==
    /\ panic = None
    /\ Commit(turn(St, plan, word, tord), Call("turn", None, NoTask, NoTask, None, FALSE))

\* ------------------------------------------------ specifications
Next ==
    \/ \E c \in ClientIds \ graph.clients : AddClient(c)
    \/ \E c \in ClientIds : RemoveClient(c)
    \/ \E w \in WorkerIds \ graph.workers, cpus \in Cpus : AddWorker(w, cpus)
    \/ \E w \in WorkerIds : RemoveWorker(w)
    \/ \E c \in ClientIds : AddSession(c)
    \/ \E sid \in 1..MaxSessions : CloseSession(sid)
    \/ \E sid \in 1..MaxSessions :
          \E batch \in {b \in Workloads : FreshBatch(sid, b)} : Submit(sid, batch)
    \/ \E o \in DOMAIN objects, word \in PlacementOrders : Unkeep(o, word)
    \/ \E w \in WorkerIds, word \in PlacementOrders :
          \E m \in Reports(w) : WorkerUpdates(w, m[1], m[2], word)
    \/ \E plan \in Plans, word \in PlacementOrders, tord \in PopOrders :
          Turn(plan, word, tord)

Spec == Init /\ [][Next]_vars

\* The client side alone: every submission of the bounds, ids used twice.
NextSubmit ==
    \/ \E c \in ClientIds : AddClient(c)
    \/ \E cpus \in Cpus : AddWorker("W1", cpus)
    \/ \E c \in ClientIds : AddSession(c)
    \/ \E sid \in 1..MaxSessions, batch \in Batches : Submit(sid, batch)

SpecSubmit == Init /\ [][NextSubmit]_vars

\* More ready tasks than the over-book limit: one submission of up to
\* ManyTasks tasks without inputs, scheduled together on one worker; the
\* workers report on the first task.
ManyTasks == 130

Bulk(n) == [objects |-> <<>>, tasks |-> [i \in 1..n |-> Tsk(i, <<>>, <<>>)]]

BulkLoads == {Bulk(n) : n \in (OverbookLimit - 2)..ManyTasks}

BulkPlans ==
    {[tasks |-> [t \in SchedTasks |-> w], objects |-> EmptyMap] : w \in EligibleWorkers}

FirstReports(w) ==
    {<<<<>>, tu>> : tu \in {x \in TaskUpdates(w) \ {<<>>} :
                              x[1].task = <<1, 1>> /\ x[1].state = "Running"}}

NextOverbook ==
    \/ \E c \in ClientIds \ graph.clients : AddClient(c)
    \/ \E w \in WorkerIds \ graph.workers, cpus \in Cpus : AddWorker(w, cpus)
    \/ \E c \in ClientIds : AddSession(c)
    \/ \E sid \in 1..MaxSessions :
          \E batch \in {b \in BulkLoads : FreshBatch(sid, b)} : Submit(sid, batch)
    \/ \E w \in WorkerIds :
          \E m \in FirstReports(w) : WorkerUpdates(w, m[1], m[2], "asc")
    \/ \E plan \in BulkPlans, tord \in PopOrders : Turn(plan, "asc", tord)

SpecOverbook == Init /\ [][NextOverbook]_vars

\* ------------------------------------------------ bootstrap
CLIENT_PROTOCOL_VERSION == 1

WORKER_PROTOCOL_VERSION == 2

\* The versions a peer may announce: the two protocols' and a stale one.
Versions == {CLIENT_PROTOCOL_VERSION, WORKER_PROTOCOL_VERSION, 0}

\* The addresses a worker may announce: a port on an unspecified IP, or a
\* full address.
Announced ==
    {[ip |-> "0.0.0.0", port |-> 7000], [ip |-> "10.0.0.9", port |-> 7000]}

\* register_as_worker: the id of the worker; the unspecified addresses of
\* IpAddr::is_unspecified are 0.0.0.0 and ::.
worker_id(b, address) ==
    IF address.ip \in {"0.0.0.0", "::"}
    THEN [ip |-> b.address.ip, port |-> address.port]
    ELSE address

\* ClientServiceImpl::new: the client of the connection enters the graph.
ClientServiceImpl_new(s, address) == add_client(s, address)

\* A variant of register_as_client that does not mark the connection.
register_as_client_unmarked(s, b, version) ==
    IF b.registered
    THEN [state |-> Err(s, "Connection already registered"), boot |-> b]
    ELSE IF version # CLIENT_PROTOCOL_VERSION
    THEN [state |-> Err(s, "Protocol mismatch"), boot |-> b]
    ELSE [state |-> ClientServiceImpl_new(s, b.address), boot |-> b]

\* ServerBootstrapImpl::register_as_client
register_as_client(s, b, version) ==
    IF b.registered
    THEN [state |-> Err(s, "Connection already registered"), boot |-> b]
    ELSE IF version # CLIENT_PROTOCOL_VERSION
    THEN [state |-> Err(s, "Protocol mismatch"), boot |-> b]
    ELSE [state |-> ClientServiceImpl_new(s, b.address),
          boot |-> [b EXCEPT !.registered = TRUE]]

\* A variant of register_as_worker that always takes the announced address.
register_as_worker_announced(s, b, version, address, cpus) ==
    IF b.registered
    THEN [state |-> Err(s, "Connection already registered"), boot |-> b,
          probe |-> NoProbe]
    ELSE IF version # WORKER_PROTOCOL_VERSION
    THEN [state |-> Err(s, "Protocol mismatch"), boot |-> b, probe |-> NoProbe]
    ELSE [state |-> Ok(s), boot |-> [b EXCEPT !.registered = TRUE],
          probe |-> [worker_id |-> address, cpus |-> cpus]]

\* ServerBootstrapImpl::register_as_worker, up to the worker_resources
\* request: `probe` is what the continuation of the request captures.
register_as_worker(s, b, version, address, cpus) ==
    IF b.registered
    THEN [state |-> Err(s, "Connection already registered"), boot |-> b,
          probe |-> NoProbe]
    ELSE IF version # WORKER_PROTOCOL_VERSION
    THEN [state |-> Err(s, "Protocol mismatch"), boot |-> b, probe |-> NoProbe]
    ELSE [state |-> Ok(s), boot |-> [b EXCEPT !.registered = TRUE],
          probe |-> [worker_id |-> worker_id(b, address), cpus |-> cpus]]

\* The continuation of register_as_worker, run when worker_resources is
\* answered: the worker enters the graph.
register_as_worker_answered(s, probe) == add_worker(s, probe.worker_id, probe.cpus)

\* A connection calls register_as_client.
RegisterAsClient(k, version) ==
    /\ panic = None
    /\ LET r == register_as_client(St, conns[k].boot, version)
       IN  CommitConn(r.state,
                      Call("register_as_client", k, NoTask, NoTask, version, FALSE),
                      [conns EXCEPT
                          ![k].boot = r.boot,
                          ![k].service =
                              IF Failed(r.state) THEN @
                              ELSE [kind |-> "client", id |-> r.boot.address]])

\* A connection calls register_as_worker; the call is answered later.
RegisterAsWorker(k, version, address, cpus) ==
    /\ panic = None
    /\ LET r == register_as_worker(St, conns[k].boot, version, address, cpus)
       IN  CommitConn(r.state,
                      Call("register_as_worker", k, NoTask, NoTask, version, FALSE),
                      [conns EXCEPT
                          ![k].boot = r.boot,
                          ![k].probe = IF Failed(r.state) THEN @ ELSE r.probe])

\* The worker answers worker_resources: the registration completes.
WorkerResourcesAnswered(k) ==
    /\ panic = None
    /\ conns[k].probe # NoProbe
    /\ LET r == register_as_worker_answered(St, conns[k].probe)
       IN  CommitConn(r,
                      Call("worker_resources", k, NoTask, NoTask, None, FALSE),
                      [conns EXCEPT
                          ![k].probe = NoProbe,
                          ![k].service =
                              IF Failed(r) THEN @
                              ELSE [kind |-> "worker", id |-> conns[k].probe.worker_id],
                          ![k].worker_id =
                              IF Failed(r) THEN @ ELSE conns[k].probe.worker_id])

\* The capability of a connection is dropped with it: the client or the
\* worker it stands for is removed.
service_drop(s, service) ==
    IF service = NoService THEN s
    ELSE IF service.kind = "client" THEN remove_client(s, service.id)
    ELSE remove_worker(s, service.id)

\* A connection drops; the next one from that peer gets a new Bootstrap.
ConnectionDrop(k) ==
    /\ panic = None
    /\ conns[k] # NewConn(k)
    /\ CommitConn(service_drop(St, conns[k].service),
                  Call("drop", k, NoTask, NoTask, None, conns[k].service # NoService),
                  [conns EXCEPT ![k] = NewConn(k)])

NextBootstrap ==
    \/ \E k \in ConnIds, version \in Versions : RegisterAsClient(k, version)
    \/ \E k \in ConnIds, version \in Versions, address \in Announced, cpus \in Cpus :
          RegisterAsWorker(k, version, address, cpus)
    \/ \E k \in ConnIds : WorkerResourcesAnswered(k)
    \/ \E k \in ConnIds : ConnectionDrop(k)

SpecBootstrap == Init /\ [][NextBootstrap]_vars

\* ------------------------------------------------ properties
MutationOps == {"submit", "updates_from_worker", "turn"}

T1 == <<1, 1>>

O1 == <<1, 1>>

O2 == <<1, 2>>

C2_FinishedUnassigned ==
    /\ \A t \in graph.tasks :
          tasks[t].state = "Finished" =>
              /\ tasks[t].assigned = None
              /\ \A o \in Range(tasks[t].outputs) : objects[o].state = "Finished"
    /\ (last.op = "updates_from_worker" /\ last.report = "Finished" /\ last.held)
          => last.ret = "ok"

\* C4: once W1 reports T1, assigned on it, Finished and O2 Finished with size
\* 11, T1 is in S1.tasks and Finished, O2 is Finished, located on W1 only,
\* and its size is 11.
C4_SingleTask ==
    (/\ last.op = "updates_from_worker"
     /\ last.who = "W1"
     /\ last.task = T1
     /\ last.report = "Finished"
     /\ last.object = O2
     /\ last.held)
    => /\ panic = None
       /\ 1 \in DOMAIN sessions
       /\ T1 \in sessions[1].tasks
       /\ tasks[T1].state = "Finished"
       /\ objects[O2].state = "Finished"
       /\ objects[O2].located = {"W1"}
       /\ objects[O2].size = 11

\* C5: when a worker reports Failed for a task assigned on it, the session of
\* the task is in the error state and none of its tasks and objects is in the
\* graph.
C5_FailSession ==
    (last.op = "updates_from_worker" /\ last.report = "Failed" /\ last.held)
    => /\ panic = None
       /\ last.task[1] \in DOMAIN sessions
       /\ sessions[last.task[1]].error # None
       /\ \A t \in graph.tasks : t[1] # last.task[1]
       /\ \A o \in graph.objects : o[1] # last.task[1]

\* C10: a session add_session has returned is found by session_by_id, and
\* remove_session on it succeeds.
C10_SessionRegistered ==
    /\ \A c \in graph.clients : \A sid \in clients[c].sessions :
          session_by_id(St, sid).ret = "ok"
    /\ last.op = "remove_session" => last.ret = "ok"

\* C3: no worker has more than the over-book limit of assigned tasks.
C3_Overbook ==
    \A w \in DOMAIN workers :
        Cardinality(workers[w].assigned_tasks) <= OverbookLimit

\* The limit cuts in: a worker is full and has ready tasks left.
C3_Witness ==
    \E w \in DOMAIN workers :
        /\ Cardinality(workers[w].assigned_tasks) = OverbookLimit
        /\ workers[w].scheduled_ready_tasks # {}

\* The tasks that produce the inputs of the tasks of T.
Producers(T) ==
    {objects[o].producer :
        o \in UNION {Range(tasks[t].inputs) : t \in T} \cap DOMAIN objects} \ {NoTask}

RECURSIVE UpstreamTasks(_, _)
UpstreamTasks(T, n) ==
    IF n = 0 THEN T ELSE UpstreamTasks(T \cup (Producers(T) \cap DOMAIN tasks), n - 1)

Acyclic ==
    \A t \in graph.tasks :
        t \notin UpstreamTasks(Producers({t}) \cap DOMAIN tasks, Cardinality(graph.tasks))

\* C6: after every accepted submission the graph is acyclic along the edges
\* from a task to its inputs and from an object to its producer.
C6_Acyclic == (last.op = "submit" /\ last.ret = "ok") => Acyclic

Exactly(v) == v = <<TRUE, FALSE>> \/ v = <<FALSE, TRUE>>

\* C7: verify_submit returns an error when a submitted object has both a
\* producer and data or has neither, and Ok only when every submitted object
\* has exactly one of the two.
C7_ExactlyOne ==
    last.op = "submit" =>
        /\ (\E o \in DOMAIN last.view : ~Exactly(last.view[o]))
              => last.ret \in {"verify_submit: both producer and data",
                               "verify_submit: neither producer nor data"}
        /\ last.ret = "ok" => \A o \in DOMAIN last.view : Exactly(last.view[o])

\* verify_submit has refused an object with a producer and with data.
C7_Witness ==
    /\ last.op = "submit"
    /\ last.ret = "verify_submit: both producer and data"
    /\ \E o \in DOMAIN last.view : last.view[o] = <<TRUE, TRUE>>

\* C8: a submission that fails leaves the graph, the entities, the sessions
\* and the update set as they were.
C8_Atomic ==
    [][(last'.op = "submit" /\ last'.ret \notin {"ok", "panic"})
        => /\ graph' = graph
           /\ tasks' = tasks
           /\ objects' = objects
           /\ sessions' = sessions
           /\ updates' = updates]_vars

SameGraph(r) ==
    /\ r.ret = "err"
    /\ r.graph = graph
    /\ r.workers = workers
    /\ r.tasks = tasks
    /\ r.objects = objects
    /\ r.sessions = sessions
    /\ r.updates = updates

\* C9: add_object, add_task and add_worker with an id of the graph return an
\* error and change neither the graph maps, nor the entities, nor the update
\* set.
C9_DuplicateRejected ==
    \A sid \in DOMAIN sessions :
        /\ \A o \in graph.objects, k \in BOOLEAN, d \in Payloads \cup {None} :
              SameGraph(add_object(St, sid, o, k, d))
        /\ \A t \in graph.tasks, ins \in LocalSeqs, outs \in LocalSeqs :
              SameGraph(add_task(St, sid, t, Qualify(sid, ins), Qualify(sid, outs)))
        /\ \A w \in graph.workers, cpus \in Cpus :
              SameGraph(add_worker(St, w, cpus))

\* An id was used twice in a graph that holds a worker, a task and an object.
C9_Witness ==
    /\ last.ret \in {"add_object: duplicate id", "add_task: duplicate id",
                     "add_worker: duplicate id"}
    /\ graph.workers # {}
    /\ graph.tasks # {}
    /\ graph.objects # {}

\* What remove_session leaves of the entities of the other sessions.
OthersKept(r, sid) ==
    /\ r.graph.tasks = {t \in graph.tasks : tasks[t].session # sid}
    /\ r.graph.objects = {o \in graph.objects : objects[o].session # sid}
    /\ r.graph.clients = graph.clients
    /\ r.graph.workers = graph.workers
    /\ \A t \in r.graph.tasks : r.tasks[t] = tasks[t]
    /\ \A o \in r.graph.objects : r.objects[o] = objects[o]
    /\ \A x \in DOMAIN sessions \ {sid} : r.sessions[x] = sessions[x]

\* C11: remove_session(s) returns having removed from the graph s and exactly
\* the tasks and objects of s; the entities of the other sessions, the clients
\* and the workers stay in the graph, the entities with their fields unchanged.
C11_RemoveSessionExact ==
    \A sid \in DOMAIN sessions :
        /\ ~Dead(remove_session(St, sid))
        /\ sid \notin remove_session(St, sid).graph.sessions
        /\ OthersKept(remove_session(St, sid), sid)

\* C12: after fail_session(s, event) the session is in the graph under its
\* id and owned by its client, its error is the event, it holds no tasks and
\* no objects, and add_object and add_task naming it are rejected.
C12_FailedSessionEmpty ==
    \A sid \in {x \in DOMAIN sessions : sessions[x].error = None} :
        /\ ~Dead(fail_session(St, sid, "oom"))
        /\ sid \in fail_session(St, sid, "oom").graph.sessions
        /\ sid \in fail_session(St, sid, "oom").clients[sessions[sid].client].sessions
        /\ fail_session(St, sid, "oom").sessions[sid].error = "oom"
        /\ fail_session(St, sid, "oom").sessions[sid].tasks = {}
        /\ fail_session(St, sid, "oom").sessions[sid].objects = {}
        /\ \A l \in ObjectLocals, d \in Payloads \cup {None} :
              add_object(fail_session(St, sid, "oom"), sid, <<sid, l>>, TRUE, d).ret = "err"
        /\ \A l \in TaskLocals :
              add_task(fail_session(St, sid, "oom"), sid, <<sid, l>>, <<>>, <<>>).ret = "err"

\* C13: remove_client(c) returns with c and the sessions it owned out of the
\* graph, together with their tasks and objects; once no client is left, the
\* graph holds no task, no object and no session.
C13_ClientRemoved ==
    last.op = "remove_client" =>
        /\ last.ret = "ok"
        /\ last.who \notin graph.clients
        /\ \A sid \in DOMAIN sessions : sessions[sid].client # last.who
        /\ \A t \in graph.tasks : sessions[tasks[t].session].client # last.who
        /\ \A o \in graph.objects : sessions[objects[o].session].client # last.who
        /\ graph.clients = {} =>
              graph.tasks = {} /\ graph.objects = {} /\ graph.sessions = {}

\* No worker names a task or an object that is not in the graph, and no task
\* or object of the graph names one that is not.
NoDangling(s) ==
    /\ \A w \in s.graph.workers :
          /\ s.workers[w].assigned_tasks \subseteq s.graph.tasks
          /\ s.workers[w].scheduled_ready_tasks \subseteq s.graph.tasks
          /\ s.workers[w].assigned_objects \subseteq s.graph.objects
          /\ s.workers[w].located_objects \subseteq s.graph.objects
          /\ s.workers[w].scheduled_objects \subseteq s.graph.objects
    /\ \A o \in s.graph.objects :
          /\ s.objects[o].producer \in s.graph.tasks \cup {NoTask}
          /\ s.objects[o].consumers \subseteq s.graph.tasks
    /\ \A t \in s.graph.tasks :
          /\ Range(s.tasks[t].inputs) \subseteq s.graph.objects
          /\ Range(s.tasks[t].outputs) \subseteq s.graph.objects

\* C14: remove_session and remove_client complete, and leave no worker set
\* and no producer, consumer, input or output naming a removed task or object.
C14_NoDangling ==
    /\ \A sid \in DOMAIN sessions :
          sessions[sid].client \in graph.clients =>
              Outcome(remove_session(St, sid)) = "ok"
              /\ NoDangling(remove_session(St, sid))
    /\ \A c \in graph.clients :
          Outcome(remove_client(St, c)) = "ok" /\ NoDangling(remove_client(St, c))

\* C15: remove_task of a task that is Assigned or Running on the worker it is
\* scheduled on completes without a failed assertion, sends stop_tasks naming
\* the task to that worker, and leaves the task out of the worker's
\* assigned_tasks and out of the graph.
C15_RemoveAssigned ==
    \A t \in graph.tasks :
        (/\ tasks[t].state \in {"Assigned", "Running"}
         /\ tasks[t].assigned # None
         /\ tasks[t].scheduled = tasks[t].assigned)
        => /\ ~Dead(remove_task(St, t))
           /\ \E r \in remove_task(St, t).rpcs :
                 r.kind = "stop_tasks" /\ r.to = tasks[t].assigned /\ t \in Range(r.tasks)
           /\ t \notin remove_task(St, t).workers[tasks[t].assigned].assigned_tasks
           /\ t \notin remove_task(St, t).graph.tasks

\* C16: a worker is in the assigned set of an object exactly when the object
\* is in the assigned_objects of the worker.
C16_AssignedBothSides ==
    /\ \A o \in DOMAIN objects : objects[o].assigned \subseteq DOMAIN workers
    /\ \A w \in DOMAIN workers : workers[w].assigned_objects \subseteq DOMAIN objects
    /\ \A o \in DOMAIN objects, w \in DOMAIN workers :
          w \in objects[o].assigned <=> o \in workers[w].assigned_objects

\* unkeep_object has unassigned an object from a worker, while an object is
\* still assigned on a worker.
C16_Witness ==
    /\ last.op = "unkeep_object"
    /\ last.ret = "ok"
    /\ \E r \in rpcs : r.kind = "unassign_objects"
    /\ \E o \in DOMAIN objects : o # last.object /\ objects[o].assigned # {}

\* C17: for every object of the graph, a worker is in its located set exactly
\* when the object is in the located_objects of the worker; no worker's
\* located_objects holds an object that was removed or is Removed.
C17_LocatedBothSides ==
    /\ \A o \in graph.objects, w \in graph.workers :
          w \in objects[o].located <=> o \in workers[w].located_objects
    /\ \A w \in graph.workers : \A o \in workers[w].located_objects :
          o \in graph.objects /\ objects[o].state # "Removed"

\* C18: every Finished object of the graph has its size set, and has inline
\* data or is located on a worker.
C18_FinishedSized ==
    \A o \in graph.objects :
        objects[o].state = "Finished" =>
            /\ objects[o].size # NoSize
            /\ objects[o].data # None \/ objects[o].located # {}

\* A worker has reported an object without inline data Finished.
C18_Witness ==
    /\ last.op = "updates_from_worker"
    /\ last.ret = "ok"
    /\ last.object \in graph.objects
    /\ objects[last.object].state = "Finished"
    /\ objects[last.object].data = None
    /\ objects[last.object].size \in Sizes
    /\ last.who \in objects[last.object].located

\* C19: every Removed object of the graph is assigned on no worker, located
\* on no worker, and not needed.
C19_RemovedClean ==
    \A o \in graph.objects :
        objects[o].state = "Removed" =>
            /\ objects[o].assigned = {}
            /\ objects[o].located = {}
            /\ ~is_needed(St, o)

\* Every task of the graph is the producer of its outputs and a consumer of
\* its inputs.
CrossLinks(s) ==
    \A t \in s.graph.tasks :
        /\ \A o \in Range(s.tasks[t].outputs) :
              o \in DOMAIN s.objects /\ s.objects[o].producer = t
        /\ \A o \in Range(s.tasks[t].inputs) :
              o \in DOMAIN s.objects /\ t \in s.objects[o].consumers

C21_AssignedTasksBothSides ==
    /\ \A w \in DOMAIN workers, t \in DOMAIN tasks :
          t \in workers[w].assigned_tasks <=> tasks[t].assigned = w
    /\ (last.op = "updates_from_worker" /\ last.report = "Finished" /\ last.held)
          => /\ panic = None
             /\ last.task \in graph.tasks
             /\ tasks[last.task].state = "Finished"
             /\ tasks[last.task].assigned = None
             /\ \A w \in graph.workers : last.task \notin workers[w].assigned_tasks

\* C22: every task in the scheduled_ready_tasks of a worker is Ready,
\* scheduled on that worker and assigned nowhere, and no turn fails the
\* assertion of distribute_tasks that a popped task is scheduled on the
\* worker it was queued on.
C22_ScheduledReady ==
    /\ \A w \in DOMAIN workers : \A t \in workers[w].scheduled_ready_tasks :
          /\ t \in DOMAIN tasks
          /\ tasks[t].state = "Ready"
          /\ tasks[t].scheduled = w
          /\ tasks[t].assigned = None
    /\ last.op = "turn"
          => panic # "distribute_tasks: task not scheduled on the worker"

\* Tasks that wait for each other's outputs: a chain of three tasks, a
\* producer with two consumers, and a consumer of one object that has its
\* data and one that is still to be produced.
ChainLoads ==
    {[objects |-> <<Obj(1, FALSE, None), Obj(2, TRUE, None)>>,
      tasks |-> <<Tsk(1, <<>>, <<1>>), Tsk(2, <<1>>, <<2>>), Tsk(3, <<2>>, <<>>)>>],
     [objects |-> <<Obj(1, FALSE, None)>>,
      tasks |-> <<Tsk(1, <<>>, <<1>>), Tsk(2, <<1>>, <<>>), Tsk(3, <<1>>, <<>>)>>],
     [objects |-> <<Obj(1, FALSE, "hello"), Obj(2, FALSE, None)>>,
      tasks |-> <<Tsk(1, <<>>, <<2>>), Tsk(2, <<1, 2>>, <<>>)>>]}

NextChain ==
    \/ \E c \in ClientIds \ graph.clients : AddClient(c)
    \/ \E cpus \in Cpus : "W1" \notin graph.workers /\ AddWorker("W1", cpus)
    \/ \E c \in ClientIds : AddSession(c)
    \/ \E sid \in 1..MaxSessions :
          \E batch \in {b \in ChainLoads : FreshBatch(sid, b)} : Submit(sid, batch)
    \/ \E w \in WorkerIds, word \in PlacementOrders :
          \E m \in Reports(w) : WorkerUpdates(w, m[1], m[2], word)
    \/ \E plan \in Plans, word \in PlacementOrders, tord \in PopOrders :
          Turn(plan, word, tord)

SpecChain == Init /\ [][NextChain]_vars

\* C23: the waiting_for of every task is the set of its inputs that are not
\* Finished; the first Finished report of an object takes it out of the
\* waiting_for of each of its consumers, and a consumer left waiting for
\* nothing was NotAssigned, is Ready and is in updates.tasks.
C23_WaitingFor ==
    /\ \A t \in graph.tasks :
          tasks[t].waiting_for =
              {o \in Range(tasks[t].inputs) : objects[o].state # "Finished"}
    /\ \A w \in graph.workers, o \in graph.objects, sz \in Sizes :
          objects[o].state = "Unfinished" =>
              LET r == updates_from_worker(
                           St, w, <<[object |-> o, state |-> "Finished", size |-> sz]>>,
                           <<>>, "asc")
              IN  /\ r.panic = None
                  /\ \A c \in objects[o].consumers :
                      /\ o \notin r.tasks[c].waiting_for
                      /\ r.tasks[c].waiting_for = {} =>
                            /\ tasks[c].state = "NotAssigned"
                            /\ r.tasks[c].state = "Ready"
                            /\ c \in r.updates.tasks

\* A worker has reported the first completion of an object: a consumer of it
\* is Ready and in updates.tasks, while another task still waits.
C23_Witness ==
    /\ last.op = "updates_from_worker"
    /\ last.ret = "ok"
    /\ last.object \in graph.objects
    /\ objects[last.object].state = "Finished"
    /\ \E c \in objects[last.object].consumers :
          /\ tasks[c].state = "Ready"
          /\ tasks[c].waiting_for = {}
          /\ c \in updates.tasks
    /\ \E c \in graph.tasks : tasks[c].waiting_for # {}

\* The task transitions a worker may report.
AcceptedTransition(from, to) ==
    \/ to = "Running" /\ from = "Assigned"
    \/ to = "Finished" /\ from \in {"Assigned", "Running"}
    \/ to = "Failed"

\* C24: a Running or Finished report for a task that is in no state from
\* which that report is accepted is refused by updates_from_worker and
\* leaves the state of the task as it was.
C24_TransitionsOnly ==
    \A w \in graph.workers, t \in graph.tasks, st \in {"Running", "Finished"} :
        ~AcceptedTransition(tasks[t].state, st) =>
            LET r == updates_from_worker(St, w, <<>>, <<[task |-> t, state |-> st]>>, "asc")
            IN  /\ r.panic # None \/ r.ret # "ok"
                /\ r.tasks[t].state = tasks[t].state

\* The positions of a call in the log of a request.
CallsOf(r, call, id) ==
    {i \in 1..Len(r.log) : r.log[i] = [call |-> call, of |-> id]}

\* C25: in the handling of a Finished report of a task, the finish hooks of
\* the task fire, and they fire before update_task_assignment is entered
\* for that task.
C25_HooksFirst ==
    \A w \in graph.workers, t \in graph.tasks :
        LET r == updates_from_worker(St, w, <<>>, <<[task |-> t, state |-> "Finished"]>>,
                                     "asc")
        IN  \E h \in CallsOf(r, "Task::trigger_finish_hooks", t) :
                \A u \in CallsOf(r, "update_task_assignment", t) : h < u

\* C26: when a worker reports a replica of a Finished object that is
\* scheduled somewhere, and the object is then located on more workers than
\* it is scheduled on, the reconciliation of its placement fails no
\* assertion, unassigns every located worker outside the schedule, and leaves
\* the object located on exactly the workers it is scheduled on.
C26_ReplicaPruning ==
    \A o \in graph.objects, w \in graph.workers, sz \in Sizes :
        LET located == objects[o].located \cup {w}
            r == updates_from_worker(
                     St, w, <<[object |-> o, state |-> "Finished", size |-> sz]>>,
                     <<>>, "asc")
        IN  (/\ o \in known[w].objects
             /\ objects[o].state = "Finished"
             /\ objects[o].scheduled # {}
             /\ objects[o].scheduled \subseteq located
             /\ Cardinality(located) > Cardinality(objects[o].scheduled))
            => /\ r.panic = None
               /\ r.objects[o].located = objects[o].scheduled
               /\ r.objects[o].located # {}
               /\ \A x \in located \ objects[o].scheduled : x \notin r.objects[o].assigned

\* assign_object and then unassign_object of the same object and worker.
AssignUnassign(o, w, word) == unassign_object(assign_object(St, o, w, word), o, w)

\* C27: for a Finished object and a worker it is not assigned on,
\* assign_object followed by unassign_object fails no assertion and leaves
\* the workers, tasks, objects, sessions, clients, graph and update set as
\* they were; only the two RPCs to the worker are emitted.
C27_AssignUnassign ==
    \A o \in graph.objects, w \in graph.workers, word \in WorkerOrders :
        (objects[o].state = "Finished" /\ w \notin objects[o].assigned) =>
            LET r == AssignUnassign(o, w, word)
            IN  /\ r.panic = None
                /\ r.workers = workers
                /\ r.tasks = tasks
                /\ r.objects = objects
                /\ r.sessions = sessions
                /\ r.clients = clients
                /\ r.graph = graph
                /\ r.updates = updates
                /\ {x.kind : x \in r.rpcs} = {"add_nodes", "unassign_objects"}
                /\ \A x \in r.rpcs : x.to = w

\* A Finished object that a worker holds and that is assigned on another
\* worker, and a worker it is not assigned on: the two calls were made there.
C27_Witness ==
    \E o \in graph.objects, w \in graph.workers :
        /\ objects[o].state = "Finished"
        /\ objects[o].located # {}
        /\ objects[o].assigned # {}
        /\ w \notin objects[o].assigned
        /\ Cardinality(AssignUnassign(o, w, "asc").rpcs) = 2

\* C28: in every add_nodes request that carries a task, an object entry is
\* flagged assigned exactly when the object is an output of that task.
C28_AssignedOnlyOutputs ==
    \A r \in rpcs :
        (r.kind = "add_nodes" /\ r.tasks # <<>>) =>
            \A i \in 1..Len(r.new_objects) :
                r.new_objects[i].assigned
                    <=> r.new_objects[i].id \in Range(tasks[r.tasks[1]].outputs)

OtherSizes == {12}

\* A message with every object update carrying the size `sz`.
Resized(m, sz) ==
    <<[i \in 1..Len(m[1]) |-> [m[1][i] EXCEPT !.size = sz]], m[2]>>

\* Two messages agree when they give the same size for an object both report.
Agree(m1, m2) ==
    \A i \in 1..Len(m1[1]), j \in 1..Len(m2[1]) :
        m1[1][i].object = m2[1][j].object => m1[1][i].size = m2[1][j].size

\* The message of w1 handled first, then that of w2.
Both(w1, m1, w2, m2, word) ==
    updates_from_worker(updates_from_worker(St, w1, m1[1], m1[2], word),
                        w2, m2[1], m2[2], word)

SameOutcome(a, b) ==
    /\ a.panic = None <=> b.panic = None
    /\ (a.panic = None /\ b.panic = None) =>
          /\ a.tasks = b.tasks
          /\ a.objects = b.objects
          /\ a.workers = b.workers

C31_OneRegistration ==
    \A k \in ConnIds :
        LET b == conns[k].boot
        IN  /\ (conns[k].service # NoService \/ conns[k].probe # NoProbe) => b.registered
            /\ ~(conns[k].service # NoService /\ conns[k].probe # NoProbe)
            /\ b.registered =>
                  \A version \in Versions :
                      /\ LET c == register_as_client(St, b, version)
                         IN  /\ c.state.ret = "err"
                             /\ c.boot = b
                             /\ c.state.graph = graph
                             /\ c.state.clients = clients
                             /\ c.state.workers = workers
                      /\ \A address \in Announced, cpus \in Cpus :
                            LET w == register_as_worker(St, b, version, address, cpus)
                            IN  /\ w.state.ret = "err"
                                /\ w.boot = b
                                /\ w.probe = NoProbe
                                /\ w.state.graph = graph
                                /\ w.state.clients = clients
                                /\ w.state.workers = workers

\* A second registration, with the right version, on a connection that has
\* its capability was refused.
C31_Witness ==
    /\ last.op \in {"register_as_client", "register_as_worker"}
    /\ last.ret = "Connection already registered"
    /\ last.report \in {CLIENT_PROTOCOL_VERSION, WORKER_PROTOCOL_VERSION}
    /\ conns[last.who].service # NoService
    /\ conns[last.who].service.id \in graph.clients \cup graph.workers

\* C32: a registration with another protocol version than the server's
\* returns an error and leaves the graph as it was, and after it no
\* registration on the same Bootstrap succeeds.
C32_MismatchCloses ==
    \A k \in ConnIds, address \in Announced, cpus \in Cpus :
        LET b == conns[k].boot
            Refused(x) ==
                /\ x.state.ret = "err"
                /\ x.state.graph = graph
                /\ x.state.clients = clients
                /\ x.state.workers = workers
            Closed(x) ==
                \A v \in Versions :
                    /\ register_as_client(St, x.boot, v).state.ret = "err"
                    /\ register_as_worker(St, x.boot, v, address, cpus).state.ret = "err"
        IN  /\ \A v \in Versions \ {CLIENT_PROTOCOL_VERSION} :
                  LET c == register_as_client(St, b, v) IN Refused(c) /\ Closed(c)
            /\ \A v \in Versions \ {WORKER_PROTOCOL_VERSION} :
                  LET w == register_as_worker(St, b, v, address, cpus)
                  IN  Refused(w) /\ w.probe = NoProbe /\ Closed(w)

\* C33: register_as_worker takes {connection IP, announced port} for the id
\* when the announced IP is unspecified and the announced address otherwise;
\* the call itself adds nothing to the graph, the answer of worker_resources
\* adds the worker under that id, and that id is the one returned. The
\* workers of the graph are those of the connections whose probe was answered.
C33_WorkerId ==
    panic = None =>
    /\ graph.workers =
          {conns[k].service.id : k \in {x \in ConnIds : conns[x].service.kind = "worker"}}
    /\ \A k \in ConnIds :
          /\ conns[k].worker_id # NoAddress =>
                /\ conns[k].service = [kind |-> "worker", id |-> conns[k].worker_id]
                /\ conns[k].worker_id \in graph.workers
          /\ conns[k].probe # NoProbe => conns[k].service = NoService
          /\ ~conns[k].boot.registered =>
                \A address \in Announced, cpus \in Cpus :
                    LET r == register_as_worker(St, conns[k].boot, WORKER_PROTOCOL_VERSION,
                                                address, cpus)
                        id == IF address.ip = "0.0.0.0"
                              THEN [ip |-> ConnAddress(k).ip, port |-> address.port]
                              ELSE address
                        a == register_as_worker_answered(r.state, r.probe)
                    IN  /\ r.state.ret = "ok"
                        /\ r.state.graph = graph
                        /\ r.state.workers = workers
                        /\ r.probe.worker_id = id
                        /\ id \notin graph.workers =>
                              /\ a.ret = "ok"
                              /\ a.graph.workers = graph.workers \cup {id}
                              /\ a.workers[id].cpus = cpus
                        /\ id \in graph.workers =>
                              a.ret = "err" /\ a.graph = graph /\ a.workers = workers

\* A worker that announced a port on an unspecified IP is in the graph under
\* the IP of its connection, and that id was returned to it.
C33_Witness ==
    /\ last.op = "worker_resources"
    /\ last.ret = "ok"
    /\ conns[last.who].worker_id = [ip |-> ConnAddress(last.who).ip, port |-> 7000]
    /\ conns[last.who].worker_id \in graph.workers
    /\ \E k \in ConnIds : conns[k].probe # NoProbe

\* C34: when the connection of a worker drops, remove_worker leaves the server
\* running with the worker out of graph.workers, its tasks unassigned and the
\* worker in neither the located nor the assigned set of any object.
C34_RemoveWorker ==
    panic = None =>
        \A w \in graph.workers :
            LET r == remove_worker(St, w)
            IN  /\ r.panic = None
                /\ w \notin r.graph.workers
                /\ \A t \in workers[w].assigned_tasks :
                      /\ r.tasks[t].assigned = None
                      /\ r.tasks[t].state \in {"NotAssigned", "Ready"}
                /\ \A o \in r.graph.objects :
                      w \notin r.objects[o].located \cup r.objects[o].assigned

\* C35: fail_worker records the cause on the worker and leaves the server
\* running: the worker holds no task and no object afterwards, and every
\* session that owned a task assigned to it is failed.
C35_FailWorker ==
    panic = None =>
        \A w \in graph.workers :
            workers[w].error = None =>
                LET r == fail_worker(St, w, "cause")
                IN  /\ r.panic = None
                    /\ r.workers[w].error = "cause"
                    /\ r.workers[w].assigned_tasks = {}
                    /\ \A o \in r.graph.objects :
                          w \notin r.objects[o].located \cup r.objects[o].assigned
                    /\ \A t \in workers[w].assigned_tasks :
                          r.sessions[tasks[t].session].error # None

Unneeded(o) ==
    /\ objects[o].state = "Finished"
    /\ objects[o].scheduled = {}
    /\ \A t \in objects[o].consumers : tasks[t].state = "Finished"

C38_RemoveLinkedObject ==
    panic = None =>
        \A o \in graph.objects :
            (\/ objects[o].producer \in graph.tasks
             \/ objects[o].consumers \cap graph.tasks # {}) =>
                LET r == remove_object(St, o)
                IN  /\ r.panic = None
                    /\ r.ret = "err"
                    /\ r.graph = graph
                    /\ r.workers = workers
                    /\ r.tasks = tasks
                    /\ r.objects = objects
                    /\ r.sessions = sessions

\* The workers that list a task as assigned.
Assignees(s, t) == {w \in DOMAIN s.workers : t \in s.workers[w].assigned_tasks}

\* The scheduler moves task t to worker w2 and nothing else.
Moved(t, w2) == schedule_tasks(St, [tasks |-> (t :> w2), objects |-> EmptyMap])

Sent(r) ==
    IF r.tasks = <<>> THEN Range(r.new_objects)
    ELSE {e \in Range(r.new_objects) : e.id \in Range(tasks[r.tasks[1]].inputs)}

\* C40: the assertion that an object located nowhere has inline data never
\* fails; every input of a task sent to a worker is Finished, and every
\* object sent by assign_task or assign_object is Finished with a placement
\* that is a worker of its located set, or the server when it is located
\* nowhere and has inline data.
C40_InputsAvailable ==
    /\ panic \notin {"assign_object: no placement and no data",
                     "assign_task: no placement and no data"}
    /\ panic = None =>
          \A r \in {x \in rpcs : x.kind = "add_nodes"} :
              /\ r.tasks # <<>> =>
                    \A o \in Range(tasks[r.tasks[1]].inputs) :
                        objects[o].state = "Finished"
              /\ \A e \in Sent(r) :
                    /\ objects[e.id].state = "Finished"
                    /\ \/ e.placement \in objects[e.id].located
                       \/ /\ e.placement = ServerSource
                          /\ objects[e.id].located = {}
                          /\ objects[e.id].data # None

\* A turn has dispatched a task with an input that a worker holds, and the
\* placement sent for it is that worker.
C40_Witness ==
    /\ last.op = "turn"
    /\ last.ret = "ok"
    /\ \E r \in rpcs :
          /\ r.kind = "add_nodes"
          /\ r.tasks # <<>>
          /\ tasks[r.tasks[1]].state = "Assigned"
          /\ \E e \in Sent(r) : e.placement \in objects[e.id].located

====
